---- MODULE Spec2Model ----
(***************************************************************************)
(* Model of the path trie of the fernet router,                            *)
(* internal/radical/radical.go: Node.Add and Node.Value, and of the router *)
(* that fills and queries it, fernet.go and route.go.                      *)
(*                                                                         *)
(* Strings are sequences of one-character strings, so that                 *)
(* strings.HasPrefix is computed and not looked up.  A node is referred to *)
(* by the sequence of map keys that lead to it from the root: every node   *)
(* is allocated by Add and stored in exactly one children map.             *)
(***************************************************************************)
EXTENDS Naturals, Sequences, FiniteSets, TLC

VARIABLES T, nodes, routes, calls, last, lookups, router

vars == <<T, nodes, routes, calls, last, lookups, router>>

(* ------------------------------ strings -------------------------------- *)

foo == <<"f", "o", "o">>
bar == <<"b", "a", "r">>
baz == <<"b", "a", "z">>
hi == <<"h", "i">>
empty == <<>>
colon == <<":">>
star == <<"*">>
name == <<":", "n", "a", "m", "e">>
id == <<":", "i", "d">>
named == <<":", "n", "a", "m", "e", "d">>
starfoo == <<"*", "f", "o", "o">>

HasPrefix(s, prefix) ==
    /\ Len(s) >= Len(prefix)
    /\ SubSeq(s, 1, Len(prefix)) = prefix

(* ------------------------------- bounds -------------------------------- *)

MaxAdds == 3

\* The goroutines that call Value while the router serves.
NumLookups == 2

(* ------------------------------ the trie ------------------------------- *)

\* The payload types: int, as in the tests of the package, and the interface
\* type any.  A payload of type int is the number itself.  A payload of type
\* any is 0 for the nil interface and Box(k) for an interface holding int k.
\* Either way the zero value of T is 0.
int == "int"
any == "any"

Box(k) == k + 1

Zero == 0

root == <<>>

NoPanic == "none"
ZeroNil == "reflect: Zero(nil)"
WildcardNotLast == "wildcard segments must be the last segment in a path"
WildcardOnce == "wildcard segments can only be used once in a path"
DuplicateRoute == "duplicate route detected"

Nil == <<"nil">>

NewNode(segment) ==
    [segment |-> segment, value |-> Zero, isSet |-> FALSE, children |-> <<>>]

New == (root :> NewNode(empty))

HasChild(ns, n, key) == key \in DOMAIN ns[n].children

Child(ns, n, key) == ns[n].children[key]

\* children[key] = &Node[T]{...}: an assignment, which replaces what the key
\* held.
AddChild(ns, n, key) ==
    LET ref == Append(n, key)
    IN  (ref :> NewNode(key)) @@ [ns EXCEPT ![n].children = (key :> ref) @@ @]

(* ------------------------------ Node.Add ------------------------------- *)

IsNamed_WholeSegment(segment) == segment = colon

IsNamed(segment) == HasPrefix(segment, colon)

IsWildcard(segment) == HasPrefix(segment, star)

HasWildcard_Never(ns, n) == FALSE

\* _, ok := currentSegment.children["*"]
HasWildcard(ns, n) == HasChild(ns, n, star)

IsLast_Always(i, segments) == TRUE

IsLast(i, segments) == i = Len(segments)

Panicked(ns, currentSegment, panic) ==
    [nodes |-> ns, currentSegment |-> currentSegment, panic |-> panic]

RECURSIVE AddWalk(_, _, _, _)
AddWalk(ns, currentSegment, segments, i) ==
    IF i > Len(segments)
    THEN [nodes |-> ns, currentSegment |-> currentSegment, panic |-> NoPanic]
    ELSE
      LET segment == segments[i] IN
      IF IsNamed(segment)
      THEN IF HasChild(ns, currentSegment, named)
           THEN AddWalk(ns, Child(ns, currentSegment, named), segments, i + 1)
           ELSE LET ns2 == AddChild(ns, currentSegment, named)
                IN  AddWalk(ns2, Child(ns2, currentSegment, named), segments, i + 1)
      ELSE IF IsWildcard(segment)
      THEN IF ~IsLast(i, segments)
           THEN Panicked(ns, currentSegment, WildcardNotLast)
           ELSE IF HasWildcard(ns, currentSegment)
           THEN Panicked(ns, currentSegment, WildcardOnce)
           ELSE LET ns2 == AddChild(ns, currentSegment, star)
                IN  [nodes |-> ns2,
                     currentSegment |-> Child(ns2, currentSegment, star),
                     panic |-> NoPanic]
      ELSE IF HasChild(ns, currentSegment, segment)
           THEN AddWalk(ns, Child(ns, currentSegment, segment), segments, i + 1)
           ELSE LET ns2 == AddChild(ns, currentSegment, segment)
                IN  AddWalk(ns2, Child(ns2, currentSegment, segment), segments, i + 1)

StoreValue_NoFlag(ns, n, value) ==
    [ns EXCEPT ![n].value = value]

StoreValue_AtRoot(ns, n, value) ==
    [ns EXCEPT ![root].value = value, ![root].isSet = TRUE]

StoreValue(ns, n, value) ==
    [ns EXCEPT ![n].value = value, ![n].isSet = TRUE]

NodeAdd_Overwrite(ns, segments, value) ==
    LET w == AddWalk(ns, root, segments, 1) IN
    IF w.panic # NoPanic
    THEN [nodes |-> w.nodes, panic |-> w.panic]
    ELSE [nodes |-> StoreValue(w.nodes, w.currentSegment, value), panic |-> NoPanic]

NodeAdd_SkipEmpty(ns, segments, value) ==
    LET w == AddWalk(ns, root, SelectSeq(segments, LAMBDA s : s # empty), 1) IN
    IF w.panic # NoPanic
    THEN [nodes |-> w.nodes, panic |-> w.panic]
    ELSE IF w.nodes[w.currentSegment].isSet
    THEN [nodes |-> w.nodes, panic |-> DuplicateRoute]
    ELSE [nodes |-> StoreValue(w.nodes, w.currentSegment, value), panic |-> NoPanic]

\* The panics leave the nodes created so far in the tree: a panic unwinds the
\* call, it does not undo the writes to the children maps.
NodeAdd(ns, segments, value) ==
    LET w == AddWalk(ns, root, segments, 1) IN
    IF w.panic # NoPanic
    THEN [nodes |-> w.nodes, panic |-> w.panic]
    ELSE IF w.nodes[w.currentSegment].isSet
    THEN [nodes |-> w.nodes, panic |-> DuplicateRoute]
    ELSE [nodes |-> StoreValue(w.nodes, w.currentSegment, value), panic |-> NoPanic]

(* ----------------------------- Node.Value ------------------------------ *)

Remember_First(ns, currentNode, lastWildcard) ==
    IF lastWildcard = Nil /\ HasChild(ns, currentNode, star)
    THEN Child(ns, currentNode, star)
    ELSE lastWildcard

\* lastWildcard after the test at the top of the loop body.
Remember(ns, currentNode, lastWildcard) ==
    IF HasChild(ns, currentNode, star)
    THEN Child(ns, currentNode, star)
    ELSE lastWildcard

Descend_NamedFirst(ns, currentNode, segment) ==
    IF HasChild(ns, currentNode, named)
    THEN Child(ns, currentNode, named)
    ELSE IF HasChild(ns, currentNode, segment)
    THEN Child(ns, currentNode, segment)
    ELSE Nil

\* The child the loop body moves to for segment, Nil when it returns instead.
Descend(ns, currentNode, segment) ==
    IF HasChild(ns, currentNode, segment)
    THEN Child(ns, currentNode, segment)
    ELSE IF HasChild(ns, currentNode, named)
    THEN Child(ns, currentNode, named)
    ELSE Nil

\* A return of Value: from is the node whose value is returned, Nil for the
\* zero value made by reflect.Zero.
Return(found, ns, from) ==
    [found |-> found, value |-> IF from = Nil THEN Zero ELSE ns[from].value,
     from |-> from, panic |-> NoPanic]

\* reflect.TypeOf takes an interface: it is nil for the nil interface and the
\* dynamic type otherwise.  A payload of a concrete type is never nil here.
NilType == "nil"

TypeOf(value) ==
    IF T = any
    THEN IF value = Zero THEN NilType ELSE int
    ELSE T

\* reflect.Zero(typ).Interface().(T): the zero value of typ, as a T.
ReflectZero(typ) ==
    IF T = any THEN Box(0) ELSE 0

\* return false, reflect.Zero(reflect.TypeOf(n.value)).Interface().(T), where
\* n is the receiver, the root.
ReturnZero(ns) ==
    IF TypeOf(ns[root].value) = NilType
    THEN [found |-> FALSE, value |-> Zero, from |-> Nil, panic |-> ZeroNil]
    ELSE [found |-> FALSE, value |-> ReflectZero(TypeOf(ns[root].value)),
          from |-> Nil, panic |-> NoPanic]

DeadEnd_NoWildcard(ns, lastWildcard) ==
    Return(FALSE, ns, Nil)

\* The return inside the loop: neither child exists.
DeadEnd(ns, lastWildcard) ==
    IF lastWildcard # Nil
    THEN Return(TRUE, ns, lastWildcard)
    ELSE ReturnZero(ns)

Finish_TrailingWildcard(ns, currentNode, lastWildcard) ==
    IF ns[currentNode].isSet
    THEN Return(TRUE, ns, currentNode)
    ELSE IF Remember(ns, currentNode, lastWildcard) # Nil
    THEN Return(TRUE, ns, Remember(ns, currentNode, lastWildcard))
    ELSE Return(FALSE, ns, currentNode)

Finish_WildcardFirst(ns, currentNode, lastWildcard) ==
    IF lastWildcard # Nil
    THEN Return(TRUE, ns, lastWildcard)
    ELSE IF ns[currentNode].isSet
    THEN Return(TRUE, ns, currentNode)
    ELSE Return(FALSE, ns, currentNode)

Finish_IgnoreIsSet(ns, currentNode, lastWildcard) ==
    Return(TRUE, ns, currentNode)

\* The returns after the loop.
Finish(ns, currentNode, lastWildcard) ==
    IF ns[currentNode].isSet
    THEN Return(TRUE, ns, currentNode)
    ELSE IF lastWildcard # Nil
    THEN Return(TRUE, ns, lastWildcard)
    ELSE Return(FALSE, ns, currentNode)

\* walked lists currentNode at the top of every iteration and after the loop.
RECURSIVE ValueWalk(_, _, _, _, _, _)
ValueWalk(ns, currentNode, lastWildcard, segments, i, walked) ==
    IF i > Len(segments)
    THEN [result |-> Finish(ns, currentNode, lastWildcard), walked |-> walked]
    ELSE
      LET wildcard == Remember(ns, currentNode, lastWildcard)
          child == Descend(ns, currentNode, segments[i])
      IN  IF child = Nil
          THEN [result |-> DeadEnd(ns, wildcard), walked |-> walked]
          ELSE ValueWalk(ns, child, wildcard, segments, i + 1,
                         Append(walked, child))

NodeValue(ns, segments) ==
    LET w == ValueWalk(ns, root, Nil, segments, 1, <<root>>)
    IN  [found |-> w.result.found, value |-> w.result.value,
         from |-> w.result.from, panic |-> w.result.panic, walked |-> w.walked]

(* ------------------------------- inputs -------------------------------- *)

Values == {Zero, 1}

Templates ==
    { <<>>, <<foo>>, <<foo, bar>>, <<foo, star>>, <<star>>,
      <<foo, name>>, <<foo, id>>, <<name, bar>>, <<foo, bar, star>>,
      <<foo, star, bar>>, <<star, foo>>, <<starfoo>> }

\* empty is in no template: it is also the literal no route knows.
Segments == {foo, bar, empty, named, star}

Paths(S, n) == UNION { [1..k -> S] : k \in 0..n }

Queries == Paths(Segments, 2) \cup { <<foo, bar, baz>>, <<foo, bar, star>> }

(* ------------------------------ actions -------------------------------- *)

\* routes is history: the registrations that returned without a panic.
\* fernet.New: no route, no middleware, no metal.
NewRouter ==
    [routes |-> <<>>, middleware |-> <<>>, metal |-> <<>>,
     anyRoutesDefined |-> FALSE]

NewTrie(payload) ==
    /\ T = payload
    /\ nodes = New
    /\ routes = {}
    /\ calls = 0
    /\ last = [op |-> "New"]
    /\ lookups = <<>>
    /\ router = NewRouter

\* radical.New[int](), as in the tests of the package.
Init == NewTrie(int)

Add(segments, value) ==
    /\ calls < MaxAdds
    /\ LET r == NodeAdd(nodes, segments, value) IN
       /\ nodes' = r.nodes
       /\ routes' = IF r.panic = NoPanic
                    THEN routes \cup {<<segments, value>>}
                    ELSE routes
       /\ last' = [op |-> "Add", segments |-> segments, value |-> value,
                   panic |-> r.panic]
    /\ calls' = calls + 1
    /\ UNCHANGED <<T, lookups, router>>

Value_MarksEnd(segments) ==
    /\ LET r == NodeValue(nodes, segments) IN
       /\ last' = [op |-> "Value", segments |-> segments, found |-> r.found,
                   value |-> r.value, from |-> r.from, panic |-> r.panic,
                   walked |-> r.walked]
       /\ nodes' = [nodes EXCEPT ![r.walked[Len(r.walked)]].isSet = TRUE]
    /\ UNCHANGED <<T, routes, calls, lookups, router>>

Value(segments) ==
    /\ LET r == NodeValue(nodes, segments) IN
       last' = [op |-> "Value", segments |-> segments, found |-> r.found,
                value |-> r.value, from |-> r.from, panic |-> r.panic,
                walked |-> r.walked]
    /\ UNCHANGED <<T, nodes, routes, calls, lookups, router>>

Next ==
    \/ \E segments \in Templates, value \in Values : Add(segments, value)
    \/ \E segments \in Queries : Value(segments)

Spec == Init /\ [][Next]_vars

\* The registrations of TestNode_Wildcards, for every choice of its literals,
\* in any order and among each other.
Literals == {foo, bar}

WildcardRoutes ==
    UNION { { <<(<<a, star>>), 1>>, <<(<<a, b>>), 2>>, <<(<<a>>), 3>> } :
            a \in Literals, b \in Literals }

WildcardQueries == Paths(Segments \cup {baz}, 2)

NextWildcards ==
    \/ \E r \in WildcardRoutes : Add(r[1], r[2])
    \/ \E segments \in WildcardQueries : Value(segments)

SpecWildcards == Init /\ [][NextWildcards]_vars

\* The registrations of TestNode_MultipleDynamicChildren, for every choice of
\* its literals and values, in any order and among each other.
DynamicLiterals == {foo, baz}

DynamicRoutes ==
    { <<(<<a, name, b>>), v>> :
          a \in DynamicLiterals, b \in DynamicLiterals, v \in {1, 2} }

DynamicSegments == {foo, bar, baz, empty, id, named, star}

DynamicQueries ==
    { <<a, x>> : a \in DynamicLiterals, x \in DynamicSegments }
        \cup { <<a, x, b>> : a \in DynamicLiterals, x \in DynamicSegments,
                             b \in DynamicLiterals }

NextDynamic ==
    \/ \E r \in DynamicRoutes : Add(r[1], r[2])
    \/ \E segments \in DynamicQueries : Value(segments)

SpecDynamic == Init /\ [][NextDynamic]_vars

\* Templates that differ in the names of their parameters only.
SharedTemplates ==
    { <<foo, name>>, <<foo, id>>, <<name, bar>>, <<id, bar>>, <<name>>, <<id>>,
      <<name, id>>, <<id, name>>, <<name, star>>, <<id, star>> }

SharedQueries == Paths({foo, bar, named}, 2)

NextShared ==
    \/ \E segments \in SharedTemplates, value \in {1, 2} : Add(segments, value)
    \/ \E segments \in SharedQueries : Value(segments)

SpecShared == Init /\ [][NextShared]_vars

\* Literal paths at overlapping depths, some with empty segments, and two
\* wildcards above them.
LiteralTemplates ==
    { <<>>, <<foo>>, <<foo, bar>>, <<foo, bar, baz>>, <<foo, empty, bar>>,
      <<foo, empty>>, <<empty>>, <<bar>> }

DepthTemplates == LiteralTemplates \cup { <<star>>, <<foo, star>> }

DepthPaths ==
    Paths({foo, bar, empty}, 2) \cup
        { <<foo, bar, baz>>, <<foo, empty, bar>>, <<foo, bar, bar>> }

NextDepths ==
    \/ \E segments \in DepthTemplates, value \in {1, 2} : Add(segments, value)
    \/ \E segments \in DepthPaths : Value(segments)

SpecDepths == Init /\ [][NextDepths]_vars

\* A trie with payloads of the interface type any: radical.New[any]().
AnyValues == {Zero, Box(0), Box(1)}

AnyTemplates == { <<>>, <<foo>>, <<foo, bar>>, <<foo, name>>, <<star>>, <<foo, star>> }

AnyQueries == Paths({foo, bar}, 2)

InitAny == NewTrie(any)

NextAny ==
    \/ \E segments \in AnyTemplates, value \in AnyValues : Add(segments, value)
    \/ \E segments \in AnyQueries : Value(segments)

SpecAny == InitAny /\ [][NextAny]_vars

\* Registrations of every kind, in every order.
OrderTemplates ==
    { <<>>, <<foo>>, <<foo, bar>>, <<foo, name>>, <<name, bar>>, <<foo, star>>,
      <<star>>, <<starfoo>>, <<foo, bar, star>>, <<foo, star, bar>> }

OrderQueries ==
    { <<>>, <<foo>>, <<foo, bar>>, <<bar, bar>>, <<foo, baz>>, <<star>> }

NextOrder ==
    \/ \E segments \in OrderTemplates, value \in {1, 2} : Add(segments, value)
    \/ \E segments \in OrderQueries : Value(segments)

SpecOrder == Init /\ [][NextOrder]_vars

(* ------------------------- Value, step by step ------------------------- *)

\* lookups is empty while routes are registered.  Once the router serves,
\* lookups[g] holds the locals of goroutine g's call of Value: segments, the
\* index i of the range loop, currentNode and lastWildcard, and the result
\* once the call has returned.
Goroutines == 1..NumLookups

Idle == [pc |-> "idle"]

Serving == lookups # <<>>

Serve ==
    /\ ~Serving
    /\ lookups' = [g \in Goroutines |-> Idle]
    /\ last' = [op |-> "Serve"]
    /\ UNCHANGED <<T, nodes, routes, calls, router>>

Register(segments, value) ==
    /\ ~Serving
    /\ Add(segments, value)

\* Value is called: currentNode := n, var lastWildcard *Node[T].
Begin(g, segments) ==
    /\ Serving
    /\ lookups[g].pc \in {"idle", "done"}
    /\ lookups' = [lookups EXCEPT ![g] =
           [pc |-> "loop", segments |-> segments, i |-> 1,
            currentNode |-> root, lastWildcard |-> Nil]]
    /\ UNCHANGED <<T, nodes, routes, calls, last, router>>

Returned(l, result) ==
    [pc |-> "done", segments |-> l.segments, result |-> result]

Iterate_SharedWildcard(g) ==
    /\ Serving
    /\ lookups[g].pc = "loop"
    /\ lookups[g].i <= Len(lookups[g].segments)
    /\ LET l == lookups[g]
           wildcard == Remember(nodes, l.currentNode, l.lastWildcard)
           child == Descend(nodes, l.currentNode, l.segments[l.i])
       IN  lookups' =
             [h \in Goroutines |->
                IF h = g
                THEN IF child = Nil
                     THEN Returned(l, DeadEnd(nodes, wildcard))
                     ELSE [l EXCEPT !.i = l.i + 1, !.currentNode = child,
                                    !.lastWildcard = wildcard]
                ELSE IF lookups[h].pc = "loop"
                THEN [lookups[h] EXCEPT !.lastWildcard = wildcard]
                ELSE lookups[h]]
    /\ UNCHANGED <<T, nodes, routes, calls, last, router>>

\* One iteration of the range loop.
Iterate(g) ==
    /\ Serving
    /\ lookups[g].pc = "loop"
    /\ lookups[g].i <= Len(lookups[g].segments)
    /\ LET l == lookups[g]
           wildcard == Remember(nodes, l.currentNode, l.lastWildcard)
           child == Descend(nodes, l.currentNode, l.segments[l.i])
       IN  lookups' = [lookups EXCEPT ![g] =
             IF child = Nil
             THEN Returned(l, DeadEnd(nodes, wildcard))
             ELSE [l EXCEPT !.i = l.i + 1, !.currentNode = child,
                            !.lastWildcard = wildcard]]
    /\ UNCHANGED <<T, nodes, routes, calls, last, router>>

\* The range loop is over: the returns after it.
AfterLoop(g) ==
    /\ Serving
    /\ lookups[g].pc = "loop"
    /\ lookups[g].i > Len(lookups[g].segments)
    /\ lookups' = [lookups EXCEPT ![g] =
           Returned(lookups[g],
                    Finish(nodes, lookups[g].currentNode, lookups[g].lastWildcard))]
    /\ UNCHANGED <<T, nodes, routes, calls, last, router>>

ServedRoutes ==
    { << <<foo>>, 1 >>, << <<foo, bar>>, 2 >>, << <<star>>, 3 >>,
      << <<foo, star>>, 4 >>, << <<foo, name>>, 5 >> }

ServedPaths == { <<>>, <<bar>>, <<foo, bar>>, <<foo, baz, bar>> }

NextConcurrent ==
    \/ \E r \in ServedRoutes : Register(r[1], r[2])
    \/ Serve
    \/ \E g \in Goroutines, segments \in ServedPaths : Begin(g, segments)
    \/ \E g \in Goroutines : Iterate(g)
    \/ \E g \in Goroutines : AfterLoop(g)

SpecConcurrent == Init /\ [][NextConcurrent]_vars

\* The registrations of TestNode_WildcardRoot.
TestNode_WildcardRoot ==
    { <<(<<star>>), 404>>, <<(<<foo, bar, name, hi>>), 1>> }

RootSegments == {foo, bar, hi, baz, empty, named, star}

MaxRootPath == 5

RootPaths == Paths(RootSegments, MaxRootPath)

RootQueries ==
    Paths(RootSegments, 1)
        \cup { <<foo, bar, s, hi>> : s \in RootSegments }
        \cup { <<foo, bar, s>> : s \in RootSegments }
        \cup { <<foo, bar, baz, hi, s>> : s \in RootSegments }

NextRoot ==
    \/ \E r \in TestNode_WildcardRoot : Add(r[1], r[2])
    \/ \E segments \in RootQueries : Value(segments)

SpecRoot == Init /\ [][NextRoot]_vars

(* ------------------------------ the router ----------------------------- *)

\* The payload of the router's trie is *route: the index of the route in
\* router.routes, 0 for the nil pointer.
routePtr == "*route"

slash == "/"

GET == <<"G", "E", "T">>
POST == <<"P", "O", "S", "T">>
PUT == <<"P", "U", "T">>
PATCH == <<"P", "A", "T", "C", "H">>
DELETE == <<"D", "E", "L", "E", "T", "E">>
verb == <<":", "v", "e", "r", "b">>

UseAfterRoutes == "Use can only be called before routes are defined"
UseMetalAfterRoutes == "UseMetal can only be called before routes are defined"
RouteDidNotMatch ==
    "route did not match request. this is a bug in fernet. please open an issue reporting this error and how to reproduce it."

StatusOK == 200
StatusNotFound == 404

TrimPrefix(s, prefix) ==
    IF HasPrefix(s, prefix) THEN SubSeq(s, Len(prefix) + 1, Len(s)) ELSE s

\* strings.Split(s, sep) for a separator of one character.
RECURSIVE Split(_, _)
Split(s, sep) ==
    IF \E i \in 1..Len(s) : s[i] = sep
    THEN LET i == CHOOSE k \in 1..Len(s) :
                     s[k] = sep /\ \A j \in 1..(k - 1) : s[j] # sep
         IN  <<SubSeq(s, 1, i - 1)>> \o Split(SubSeq(s, i + 1, Len(s)), sep)
    ELSE <<s>>

normalizeRoutePath(path) == Split(TrimPrefix(path, <<slash>>), slash)

newRoute(method, path) ==
    [Method |-> method, Path |-> path, parts |-> normalizeRoutePath(path)]

\* route.match, without the params it collects.
match(route, method, path) ==
    LET reqParts == normalizeRoutePath(path) IN
    IF route.Method # method
    THEN FALSE
    ELSE IF Len(route.parts) # Len(reqParts)
    THEN FALSE
    ELSE \A i \in 1..Len(route.parts) :
            HasPrefix(route.parts[i], colon) \/ route.parts[i] = reqParts[i]

\* route.isWildcard is called by ServeHTTP and defined nowhere in the source:
\* a wildcard route is a route whose template ends in the wildcard segment.
isWildcard(route) ==
    route.parts[Len(route.parts)] = star

\* Router.Match.  The flag is set and the route is appended before Add is
\* called, so they stay when Add panics.
Match(method, path) ==
    /\ calls < MaxAdds
    /\ LET route == newRoute(method, path)
           index == Len(router.routes) + 1
           pathParts == <<method>> \o route.parts
           r == NodeAdd(nodes, pathParts, index)
       IN  /\ router' = [router EXCEPT !.anyRoutesDefined = TRUE,
                                       !.routes = Append(@, route)]
           /\ nodes' = r.nodes
           /\ routes' = IF r.panic = NoPanic
                        THEN routes \cup {<<pathParts, index>>}
                        ELSE routes
           /\ last' = [op |-> "Match", method |-> method, path |-> path,
                       segments |-> pathParts, value |-> index,
                       panic |-> r.panic]
    /\ calls' = calls + 1
    /\ UNCHANGED <<T, lookups>>

Get(path) == Match(GET, path)

Post(path) == Match(POST, path)

Put(path) == Match(PUT, path)

Patch(path) == Match(PATCH, path)

Delete(path) == Match(DELETE, path)

MaxMiddleware == 2

\* Router.Use(fns...)
Use(fns) ==
    /\ Len(router.middleware) < MaxMiddleware
    /\ IF router.anyRoutesDefined
       THEN /\ last' = [op |-> "Use", fns |-> fns, panic |-> UseAfterRoutes]
            /\ UNCHANGED router
       ELSE /\ last' = [op |-> "Use", fns |-> fns, panic |-> NoPanic]
            /\ router' = [router EXCEPT !.middleware = @ \o fns]
    /\ UNCHANGED <<T, nodes, routes, calls, lookups>>

UseMetal_Unchecked(fns) ==
    /\ Len(router.metal) < MaxMiddleware
    /\ last' = [op |-> "UseMetal", fns |-> fns, panic |-> NoPanic]
    /\ router' = [router EXCEPT !.metal = @ \o fns]
    /\ UNCHANGED <<T, nodes, routes, calls, lookups>>

\* Router.UseMetal(fns...)
UseMetal(fns) ==
    /\ Len(router.metal) < MaxMiddleware
    /\ IF router.anyRoutesDefined
       THEN /\ last' = [op |-> "UseMetal", fns |-> fns, panic |-> UseMetalAfterRoutes]
            /\ UNCHANGED router
       ELSE /\ last' = [op |-> "UseMetal", fns |-> fns, panic |-> NoPanic]
            /\ router' = [router EXCEPT !.metal = @ \o fns]
    /\ UNCHANGED <<T, nodes, routes, calls, lookups>>

\* The handler of Router.ServeHTTP, reached through the metal stack; every
\* metal and every middleware of the repository calls next.
Dispatch(method, path) ==
    LET lookup == <<method>> \o normalizeRoutePath(path)
        r == NodeValue(nodes, lookup)
    IN  IF r.found
        THEN LET ok == match(router.routes[r.value], method, path) IN
             [segments |-> lookup, found |-> TRUE, value |-> r.value,
              from |-> r.from, ok |-> ok,
              panic |-> IF ~ok /\ ~isWildcard(router.routes[r.value])
                        THEN RouteDidNotMatch ELSE NoPanic,
              status |-> StatusOK]
        ELSE [segments |-> lookup, found |-> FALSE, value |-> r.value,
              from |-> r.from, ok |-> FALSE, panic |-> r.panic,
              status |-> StatusNotFound]

ServeHTTP(method, path) ==
    /\ LET d == Dispatch(method, path) IN
       last' = [op |-> "ServeHTTP", method |-> method, path |-> path,
                segments |-> d.segments, found |-> d.found, value |-> d.value,
                from |-> d.from, ok |-> d.ok, panic |-> d.panic,
                status |-> d.status]
    /\ UNCHANGED <<T, nodes, routes, calls, lookups, router>>

InitRouter == NewTrie(routePtr)

Methods == {GET, verb}

RoutePaths ==
    { <<slash>> \o foo,
      <<slash>> \o foo \o <<slash>> \o bar,
      <<slash>> \o foo \o <<slash>> \o name,
      <<slash>> \o foo \o <<slash>> \o star }

RequestMethods == {GET, POST, DELETE}

RequestPaths ==
    { <<slash>>,
      <<slash>> \o foo,
      <<slash>> \o foo \o <<slash>> \o bar,
      <<slash>> \o foo \o <<slash>> \o bar \o <<slash>> \o baz,
      <<slash>> \o bar }

NextRouter ==
    \/ \E method \in Methods, path \in RoutePaths : Match(method, path)
    \/ \E method \in RequestMethods, path \in RequestPaths : ServeHTTP(method, path)

SpecRouter == InitRouter /\ [][NextRouter]_vars

\* Registration of middleware, metal and routes, as in
\* TestRouter_UseAfterRoute.
Middlewares == { <<>>, <<"m1">>, <<"m1", "m2">> }

Hello == <<slash, "h", "e", "l", "l", "o">>

NextMiddleware ==
    \/ \E fns \in Middlewares : Use(fns)
    \/ \E fns \in Middlewares : UseMetal(fns)
    \/ Match(verb, Hello)
    \/ Get(Hello)
    \/ Post(Hello)
    \/ Put(<<slash, star, slash>> \o foo)
    \/ Patch(Hello)
    \/ Delete(<<slash>>)

SpecMiddleware == InitRouter /\ [][NextMiddleware]_vars

(* ------------------------------- claims -------------------------------- *)

IsAdd == last.op = "Add"

IsValue == last.op = "Value"

AllLiteral(segments) ==
    \A i \in 1..Len(segments) : ~IsNamed(segments[i]) /\ ~IsWildcard(segments[i])

Returns(r, found, value) == r.found = found /\ r.value = value

\* C1: literal round-trip.  Right after an Add of literal segments has
\* returned without a panic, Value of the same segments returns (true, v).
C1_LiteralRoundTrip ==
    (IsAdd /\ last.panic = NoPanic /\ AllLiteral(last.segments))
        => Returns(NodeValue(nodes, last.segments), TRUE, last.value)

\* A literal path of two segments was added beside a dynamic sibling and below
\* a wildcard.
C1_Witness ==
    /\ IsAdd /\ last.panic = NoPanic
    /\ last.segments = <<foo, bar>>
    /\ HasChild(nodes, <<foo>>, named)
    /\ HasChild(nodes, root, star)

\* The trie holds exactly the registrations rs: each returned without a panic
\* and no other Add was called.
HoldsExactly(rs) == routes = rs /\ calls = Cardinality(rs)

TestNode_Wildcards(a, b) ==
    { <<(<<a, star>>), 1>>, <<(<<a, b>>), 2>>, <<(<<a>>), 3>> }

\* C2: wildcard fallback and precedence.  After Add([a,*],1), Add([a,b],2),
\* Add([a],3) for literals a, b: Value([a,b]) = (true,2), Value([a,x]) =
\* (true,1) for every x # b, Value([a]) = (true,3).
C2_WildcardFallback ==
    \A a \in Literals, b \in Literals :
        (HoldsExactly(TestNode_Wildcards(a, b)) /\ IsValue) =>
            /\ last.segments = <<a, b>> => Returns(last, TRUE, 2)
            /\ (Len(last.segments) = 2 /\ last.segments[1] = a
                  /\ last.segments[2] # b) => Returns(last, TRUE, 1)
            /\ last.segments = <<a>> => Returns(last, TRUE, 3)

\* The three routes are registered and a lookup fell back to the wildcard.
C2_Witness ==
    /\ HoldsExactly(TestNode_Wildcards(foo, bar))
    /\ IsValue /\ last.segments = <<foo, baz>>
    /\ Returns(last, TRUE, 1)

MatchesDeepRoute(p) ==
    Len(p) = 4 /\ p[1] = foo /\ p[2] = bar /\ p[4] = hi

\* C3 as stated: root catch-all.  On the trie holding exactly Add([*],404)
\* and Add([foo,bar,:name,hi],1), Value([foo,bar,x,hi]) = (true,1) for any x
\* and Value of every other path = (true,404).
C3_RootCatchAll_Original ==
    HoldsExactly(TestNode_WildcardRoot) =>
        \A p \in RootPaths :
            IF MatchesDeepRoute(p)
            THEN Returns(NodeValue(nodes, p), TRUE, 1)
            ELSE Returns(NodeValue(nodes, p), TRUE, 404)

\* C3 as amended: ... and Value of every other path of at least one segment
\* = (true,404); Value of the empty path = (false, zero).
C3_RootCatchAll ==
    HoldsExactly(TestNode_WildcardRoot) =>
        \A p \in RootPaths :
            IF MatchesDeepRoute(p)
            THEN Returns(NodeValue(nodes, p), TRUE, 1)
            ELSE IF p # <<>>
            THEN Returns(NodeValue(nodes, p), TRUE, 404)
            ELSE Returns(NodeValue(nodes, p), FALSE, Zero)

\* Both routes are registered and a path longer than the deep route was looked
\* up and fell back to the catch-all.
C3_Witness ==
    /\ HoldsExactly(TestNode_WildcardRoot)
    /\ IsValue /\ last.segments = <<foo, bar, baz, hi, baz>>
    /\ Returns(last, TRUE, 404)

(* The walk of the last Value call. *)

Min(a, b) == IF a <= b THEN a ELSE b

Highest(S) == CHOOSE i \in S : \A j \in S : j <= i

\* The iterations of the loop that Value entered.
Iterations == 1..Min(Len(last.walked), Len(last.segments))

Final == last.walked[Len(last.walked)]

\* The walk returned from inside the loop.
DeadEnded == Len(last.walked) <= Len(last.segments)

\* A child under a key that is a segment's own text, not one of the two
\* reserved keys.
HasLiteralChild(n, segment) ==
    segment \notin {named, star} /\ HasChild(nodes, n, segment)

TookChild(i, key) ==
    /\ i < Len(last.walked)
    /\ HasChild(nodes, last.walked[i], key)
    /\ last.walked[i + 1] = Child(nodes, last.walked[i], key)

IsWildcardNode(n) == n # root /\ n[Len(n)] = star

\* The iterations whose node has a wildcard child.
SawWildcard == { i \in Iterations : HasChild(nodes, last.walked[i], star) }

\* C4 as stated: precedence of literal over dynamic.  At every depth a
\* literal child equal to the segment is taken, the dynamic child is taken
\* only when there is none, and a wildcard's value is returned only when the
\* walk dead-ends or ends on a node with no stored value.
C4_Precedence ==
    IsValue =>
        /\ \A i \in Iterations :
              HasLiteralChild(last.walked[i], last.segments[i])
                  => TookChild(i, last.segments[i])
        /\ \A i \in Iterations :
              TookChild(i, named)
                  => ~HasLiteralChild(last.walked[i], last.segments[i])
        /\ (last.found /\ IsWildcardNode(last.from))
              => (DeadEnded \/ ~nodes[Final].isSet)

\* The first two parts of C4 alone.
C4_LiteralBeforeDynamic ==
    IsValue =>
        /\ \A i \in Iterations :
              HasLiteralChild(last.walked[i], last.segments[i])
                  => TookChild(i, last.segments[i])
        /\ \A i \in Iterations :
              TookChild(i, named)
                  => ~HasLiteralChild(last.walked[i], last.segments[i])

\* Template t matches path p segment by segment: a literal segment equals
\* p's, a segment starting with ':' matches any one segment, a final '*'
\* matches one or more remaining segments.
TemplateMatches(t, p) ==
    IF t # <<>> /\ t[Len(t)] = star
    THEN /\ Len(p) >= Len(t)
         /\ \A i \in 1..(Len(t) - 1) : IsNamed(t[i]) \/ t[i] = p[i]
    ELSE /\ Len(p) = Len(t)
         /\ \A i \in 1..Len(t) : IsNamed(t[i]) \/ t[i] = p[i]

\* The walk took a literal child where a dynamic sibling existed, and
\* dead-ended deeper.
DeadEndedPastDynamic ==
    /\ IsValue /\ DeadEnded
    /\ \E i \in Iterations :
          /\ HasLiteralChild(last.walked[i], last.segments[i])
          /\ TookChild(i, last.segments[i])
          /\ HasChild(nodes, last.walked[i], named)

\* C5: no backtracking.  A walk that took a literal child and dead-ends deeper
\* does not go back to the dynamic sibling: it returns a remembered wildcard's
\* value if a wildcard was seen, otherwise (false, zero).
C5_NoBacktracking ==
    DeadEndedPastDynamic =>
        IF SawWildcard # {}
        THEN /\ last.found
             /\ \E i \in SawWildcard :
                   /\ last.from = Child(nodes, last.walked[i], star)
                   /\ last.value = nodes[last.from].value
        ELSE Returns(last, FALSE, Zero) /\ last.from = Nil

\* Not found, although a registered template with a dynamic segment matches
\* the whole path.
C5_Witness ==
    /\ DeadEndedPastDynamic
    /\ ~last.found
    /\ \E r \in routes :
          /\ TemplateMatches(r[1], last.segments)
          /\ \E i \in 1..Len(r[1]) : IsNamed(r[1][i])

\* C6: deepest-wildcard fallback.  When the walk dead-ends, or consumes all
\* segments and ends on a node with no stored value, and some node visited
\* before consuming a segment has a wildcard child, Value returns (true, w), w
\* the value of the wildcard child of the deepest such node.
C6_DeepestWildcard ==
    (IsValue /\ (DeadEnded \/ ~nodes[Final].isSet) /\ SawWildcard # {}) =>
        LET deepest == Child(nodes, last.walked[Highest(SawWildcard)], star)
        IN  /\ Returns(last, TRUE, nodes[deepest].value)
            /\ last.from = deepest

\* Two wildcards were seen, the walk went on below the deeper one and failed
\* there, and the two wildcards hold different values.
C6_Witness ==
    /\ IsValue /\ DeadEnded
    /\ Cardinality(SawWildcard) = 2
    /\ Highest(SawWildcard) < Len(last.walked)
    /\ \E i \in SawWildcard :
          nodes[Child(nodes, last.walked[i], star)].value # last.value

\* C7 as stated: dynamic segments absorb any value.  At a node with a dynamic
\* child and no literal child equal to the segment, Value moves to the dynamic
\* child whatever the segment's text, '*' and ':...' included.
C7_DynamicAbsorbsAny ==
    IsValue =>
        \A i \in Iterations :
            (/\ HasChild(nodes, last.walked[i], named)
             /\ ~HasLiteralChild(last.walked[i], last.segments[i]))
                => TookChild(i, named)

TestNode_MultipleDynamicChildren(a, b, c, v1, v2) ==
    { <<(<<a, name, b>>), v1>>, <<(<<a, name, c>>), v2>> }

\* C8: capture-agnostic matching.  On the trie holding exactly
\* Add([a,:name,b],v1) and Add([a,:name,c],v2), b # c: for every segment x,
\* Value([a,x,b]) = (true,v1), Value([a,x,c]) = (true,v2) and
\* Value([a,x]) = (false, zero).
C8_CaptureAgnostic ==
    \A a \in DynamicLiterals, b \in DynamicLiterals, c \in DynamicLiterals,
       v1 \in {1, 2}, v2 \in {1, 2} :
        (b # c /\ HoldsExactly(TestNode_MultipleDynamicChildren(a, b, c, v1, v2)))
            => \A x \in DynamicSegments :
                  /\ Returns(NodeValue(nodes, <<a, x, b>>), TRUE, v1)
                  /\ Returns(NodeValue(nodes, <<a, x, c>>), TRUE, v2)
                  /\ Returns(NodeValue(nodes, <<a, x>>), FALSE, Zero)

\* The two routes of the test are registered and the second was found with
\* '*' at the dynamic position.
C8_Witness ==
    /\ HoldsExactly(TestNode_MultipleDynamicChildren(foo, baz, foo, 1, 2))
    /\ IsValue /\ last.segments = <<foo, star, foo>>
    /\ Returns(last, TRUE, 2)

(* Steps of Add. *)

\* Every Add call, and no other step, counts a call.
AddStep == calls' = calls + 1

\* The nodes with a stored value, and the value of each.
Stored(ns) == { <<n, ns[n].value>> : n \in { m \in DOMAIN ns : ns[m].isSet } }

MisplacedWildcard(segments) ==
    \E i \in 1..(Len(segments) - 1) : segments[i] = star

\* C9: wildcard position check.  An Add whose segments hold '*' anywhere but
\* last panics with "wildcard segments must be the last segment in a path"
\* and stores no value.
C9_WildcardMustBeLast ==
    [][(AddStep /\ MisplacedWildcard(last'.segments)) =>
          /\ last'.panic = WildcardNotLast
          /\ Stored(nodes') = Stored(nodes)
          /\ routes' = routes]_vars

\* Add([foo,*,bar]) panicked.
C9_Witness ==
    /\ IsAdd /\ last.segments = <<foo, star, bar>>
    /\ last.panic = WildcardNotLast

\* C10: duplicate rejection.  An Add of segments that were registered before,
\* whose walk reaches the terminal node, panics with "duplicate route
\* detected"; the stored values are as before and Value of the segments
\* still returns (true, v1).
C10_DuplicateRejected ==
    [][\A r \in routes :
          (/\ AddStep /\ last'.segments = r[1]
           /\ last'.panic \notin {WildcardNotLast, WildcardOnce})
              => /\ last'.panic = DuplicateRoute
                 /\ Stored(nodes') = Stored(nodes)
                 /\ Returns(NodeValue(nodes', r[1]), TRUE, r[2])]_vars

\* A route with a dynamic segment was registered again with another value and
\* the Add panicked.
C10_Witness ==
    /\ IsAdd /\ last.panic = DuplicateRoute
    /\ last.segments = <<foo, name>>
    /\ \E r \in routes : r[1] = last.segments /\ r[2] # last.value

\* The node that Add's walk of the segments ends on when it creates nothing:
\* a segment starting with ':' goes under the key ":named", any other under
\* its own text.
Terminal(segments) ==
    [i \in 1..Len(segments) |->
        IF HasPrefix(segments[i], colon) THEN named ELSE segments[i]]

Front(segments) == SubSeq(segments, 1, Len(segments) - 1)

EndsInWildcard(segments) ==
    /\ segments # <<>>
    /\ segments[Len(segments)] = star
    /\ \A i \in 1..(Len(segments) - 1) : ~HasPrefix(segments[i], star)

\* C11: single wildcard per node.  An Add whose last segment is '*', at a node
\* that already has a wildcard child, panics with "wildcard segments can only
\* be used once in a path" and leaves the wildcard's value, and every stored
\* value, as it was.
C11_SingleWildcard ==
    [][(/\ AddStep
        /\ EndsInWildcard(last'.segments)
        /\ Terminal(Front(last'.segments)) \in DOMAIN nodes
        /\ HasChild(nodes, Terminal(Front(last'.segments)), star))
          => /\ last'.panic = WildcardOnce
             /\ Stored(nodes') = Stored(nodes)
             /\ routes' = routes]_vars

\* Add([foo,*]) panicked at a node whose wildcard holds another value.
C11_Witness ==
    /\ IsAdd /\ last.segments = <<foo, star>>
    /\ last.panic = WildcardOnce
    /\ nodes[<<foo, star>>].isSet
    /\ nodes[<<foo, star>>].value # last.value

\* C12: a wildcard needs a remainder of at least one segment.  A wildcard's
\* value is returned only for a path that goes on past the wildcard's parent;
\* a path that ends on the parent gets the parent's stored value if it has
\* one, else the value of a wildcard seen earlier, else (false, zero).
C12_WildcardNeedsRemainder ==
    IsValue =>
        /\ (last.found /\ IsWildcardNode(last.from)) =>
              /\ Len(last.segments) >= Len(last.from)
              /\ last.walked[Len(last.from)] = Front(last.from)
        /\ (~DeadEnded /\ HasChild(nodes, Final, star)) =>
              /\ last.from # Child(nodes, Final, star)
              /\ IF nodes[Final].isSet
                 THEN Returns(last, TRUE, nodes[Final].value) /\ last.from = Final
                 ELSE IF SawWildcard # {}
                 THEN last.found /\ last.from =
                        Child(nodes, last.walked[Highest(SawWildcard)], star)
                 ELSE Returns(last, FALSE, Zero)

\* A path ended on an unset node that has a wildcard child, and was not found.
C12_Witness ==
    /\ IsValue /\ ~DeadEnded
    /\ last.segments = <<foo>>
    /\ HasChild(nodes, Final, star)
    /\ nodes[Child(nodes, Final, star)].isSet
    /\ ~last.found

LiteralPerSpec(segment) == ~HasPrefix(segment, colon) /\ segment # star

\* C13 as stated: only the exact marker '*' is a wildcard.  An Add whose
\* segments neither start with ':' nor are exactly '*' does not panic over a
\* wildcard, and creates or reuses the children keyed by the segments' texts.
C13_OnlyExactMarker ==
    (IsAdd /\ \A i \in 1..Len(last.segments) : LiteralPerSpec(last.segments[i]))
        => /\ last.panic \in {NoPanic, DuplicateRoute}
           /\ last.segments \in DOMAIN nodes
           /\ NodeValue(nodes, last.segments).from = last.segments

\* Templates t and u differ in the names of their parameters only.
DifferInNamesOnly(t, u) ==
    /\ t # u
    /\ Len(t) = Len(u)
    /\ \A i \in 1..Len(t) :
          \/ t[i] = u[i]
          \/ HasPrefix(t[i], colon) /\ HasPrefix(u[i], colon)

\* Every key that starts with ':' is the one key ":named".
OneDynamicSlot(ns) ==
    \A n \in DOMAIN ns : \A i \in 1..Len(n) :
        HasPrefix(n[i], colon) => n[i] = named

NoWildcardSegment(segments) ==
    \A i \in 1..Len(segments) : ~HasPrefix(segments[i], star)

\* C14 as stated: shared dynamic slot.  Every segment starting with ':' goes
\* into the one dynamic child, and an Add of a template that differs from a
\* registered one in parameter names only fails as a duplicate route.
C14_SharedSlot_Original ==
    [][AddStep =>
          /\ OneDynamicSlot(nodes')
          /\ \A r \in routes :
                DifferInNamesOnly(r[1], last'.segments)
                    => /\ last'.panic = DuplicateRoute
                       /\ Stored(nodes') = Stored(nodes)]_vars

\* C14 as amended: ... fails as a duplicate route when the templates hold no
\* wildcard segment, and with "wildcard segments can only be used once in a
\* path" when they end in one.
C14_SharedSlot ==
    [][AddStep =>
          /\ OneDynamicSlot(nodes')
          /\ \A r \in routes :
                DifferInNamesOnly(r[1], last'.segments)
                    => /\ last'.panic = IF NoWildcardSegment(last'.segments)
                                        THEN DuplicateRoute
                                        ELSE WildcardOnce
                       /\ Stored(nodes') = Stored(nodes)]_vars

\* [foo,:id] was refused as a duplicate of [foo,:name], registered with
\* another value.
C14_Witness ==
    /\ IsAdd /\ last.segments = <<foo, id>>
    /\ last.panic = DuplicateRoute
    /\ \E r \in routes : r[1] = <<foo, name>> /\ r[2] # last.value
    /\ \A r \in routes : r[1] # <<foo, id>>


Prefix(p, k) == SubSeq(p, 1, k)

IsProperPrefix(q, p) == Len(q) < Len(p) /\ Prefix(p, Len(q)) = q

\* C15: prefixes are not matches.  On a trie whose only registration is a
\* literal path p, Value of every proper prefix of p returns (false, zero);
\* a walk that ends on a node without a stored value is a match only when a
\* wildcard was remembered.
C15_PrefixesDoNotMatch ==
    /\ \A p \in LiteralTemplates, v \in {1, 2} :
          HoldsExactly({<<p, v>>}) =>
              \A k \in 0..(Len(p) - 1) :
                  Returns(NodeValue(nodes, Prefix(p, k)), FALSE, Zero)
    /\ (IsValue /\ ~DeadEnded /\ ~nodes[Final].isSet)
          => (last.found <=> SawWildcard # {})

\* [foo,bar,baz] is the only registration and Value([foo,bar]) ended on the
\* value-less node foo/bar.
C15_Witness ==
    /\ \E v \in {1, 2} : HoldsExactly({<< <<foo, bar, baz>>, v >>})
    /\ IsValue /\ last.segments = <<foo, bar>>
    /\ Final = <<foo, bar>> /\ ~last.found

\* C16: independent depths.  When a literal path is registered and a literal
\* path that is a proper prefix of it, or that it is a proper prefix of, is
\* added with another value and was not registered before, the Add succeeds,
\* each path resolves to its own value, and the result for the first path is
\* what it was.
C16_IndependentDepths ==
    [][AddStep =>
          \A r \in routes :
              (/\ AllLiteral(r[1]) /\ AllLiteral(last'.segments)
               /\ IsProperPrefix(r[1], last'.segments)
                     \/ IsProperPrefix(last'.segments, r[1])
               /\ r[2] # last'.value
               /\ \A o \in routes : o[1] # last'.segments)
                  => /\ last'.panic = NoPanic
                     /\ Returns(NodeValue(nodes', r[1]), TRUE, r[2])
                     /\ Returns(NodeValue(nodes', last'.segments), TRUE, last'.value)
                     /\ NodeValue(nodes', r[1]) = NodeValue(nodes, r[1])]_vars

\* TestNode_Backpedal's order: the shorter path [foo,bar] was added after the
\* longer [foo,bar,baz], with another value.
C16_Witness ==
    /\ IsAdd /\ last.segments = <<foo, bar>> /\ last.value = 2
    /\ HoldsExactly({ << <<foo, bar, baz>>, 1 >>, << <<foo, bar>>, 2 >> })

\* C17: empty segments are literal.  The node a literal template ends on is
\* returned for the path equal to the template only, so a template with an
\* empty segment at position i is matched only by paths with an empty segment
\* at position i; Add([foo,"",bar],1) does not make Value([foo,bar]) match.
C17_EmptyIsLiteral ==
    /\ \A r \in routes : AllLiteral(r[1]) =>
          /\ r[1] \in DOMAIN nodes
          /\ \A p \in DepthPaths :
                (NodeValue(nodes, p).found /\ NodeValue(nodes, p).from = r[1])
                    => p = r[1]
    /\ \A v \in {1, 2} : HoldsExactly({<< <<foo, empty, bar>>, v >>}) =>
          /\ ~NodeValue(nodes, <<foo, bar>>).found
          /\ Returns(NodeValue(nodes, <<foo, empty, bar>>), TRUE, v)

\* TestNode_EmptyItems: [foo,"",bar] is the only registration and
\* Value([foo,bar]) did not match.
C17_Witness ==
    /\ HoldsExactly({<< <<foo, empty, bar>>, 1 >>})
    /\ IsValue /\ last.segments = <<foo, bar>> /\ ~last.found

\* C18: Value is read-only.  A Value call leaves every node's children,
\* value and isSet as they were, so the same call on the resulting trie
\* returns the same result.
C18_ValueReadOnly ==
    [][last'.op = "Value" =>
          /\ nodes' = nodes
          /\ Returns(NodeValue(nodes', last'.segments), last'.found, last'.value)
          /\ NodeValue(nodes', last'.segments).from = last'.from]_vars

\* A lookup ended on a node that exists and holds no value, below a
\* remembered wildcard.
C18_Witness ==
    /\ IsValue /\ ~DeadEnded /\ ~nodes[Final].isSet
    /\ last.found /\ IsWildcardNode(last.from)

\* C19: Value is total and not-found is zero.  Every Value call, the one with
\* the empty sequence included, returns a boolean and a value without a
\* panic, and the value is the zero value of the payload type whenever the
\* boolean is false.
C19_NotFoundIsZero ==
    IsValue =>
        /\ last.panic = NoPanic
        /\ last.found \in BOOLEAN
        /\ ~last.found => last.value = Zero


\* The result goroutine g's call returned is the result of the call run alone.
AsAlone(ns, l) ==
    LET alone == NodeValue(ns, l.segments) IN
    /\ l.result.found = alone.found
    /\ l.result.value = alone.value
    /\ l.result.from = alone.from
    /\ l.result.panic = alone.panic

\* C20: concurrent lookups are independent.  Once the trie is no longer
\* modified, whatever the interleaving of the steps of the Value calls, every
\* call that has returned has returned what it returns when run alone, and no
\* step changes the trie.
C20_IndependentLookups ==
    [][Serving' =>
          /\ nodes' = nodes
          /\ \A g \in Goroutines :
                lookups'[g].pc = "done" => AsAlone(nodes', lookups'[g])]_vars

\* Goroutine 1 has returned a wildcard's value for [foo,baz,bar] while
\* goroutine 2 is inside its walk of [foo,bar], past the first segment.
C20_Witness ==
    /\ Serving
    /\ lookups[1].pc = "done" /\ lookups[1].segments = <<foo, baz, bar>>
    /\ lookups[1].result.found /\ IsWildcardNode(lookups[1].result.from)
    /\ lookups[2].pc = "loop" /\ lookups[2].segments = <<foo, bar>>
    /\ lookups[2].i = 2 /\ lookups[2].lastWildcard = Nil


IsServeHTTP == last.op = "ServeHTTP"

\* C21: method is segment zero.  A route registered with Match(m, path) is
\* never selected for a request with another method, and a request whose
\* method has no route is not found and answered with status 404.
C21_MethodIsSegmentZero ==
    IsServeHTTP =>
        /\ last.found => router.routes[last.value].Method = last.method
        /\ (\A i \in 1..Len(router.routes) :
               router.routes[i].Method # last.method)
              => ~last.found /\ last.status = StatusNotFound


\* C22: middleware before routes.  Once a route has been registered through
\* Match, Get, Post, Put, Patch or Delete, every call of Use panics with
\* "Use can only be called before routes are defined", every call of UseMetal
\* with "UseMetal can only be called before routes are defined", and the
\* middleware and metal lists stay as they are.
C22_MiddlewareBeforeRoutes ==
    [][routes # {} =>
          /\ last'.op = "Use" => last'.panic = UseAfterRoutes
          /\ last'.op = "UseMetal" => last'.panic = UseMetalAfterRoutes
          /\ router'.middleware = router.middleware
          /\ router'.metal = router.metal]_vars

\* Use was refused after a route was registered on a router that already had
\* a middleware and a metal.
C22_Witness ==
    /\ last.op = "Use" /\ last.panic = UseAfterRoutes
    /\ Cardinality(routes) = 1
    /\ Len(router.middleware) = 1 /\ Len(router.metal) = 1


\* C23: root registration.  An Add of the empty sequence that returns stores
\* the value on the root, Value of the empty sequence then returns
\* (true, value), and Value of every non-empty path returns what it returned
\* before.
C23_RootRegistration ==
    [][(AddStep /\ last'.segments = <<>> /\ last'.panic = NoPanic) =>
          /\ nodes'[root].isSet /\ nodes'[root].value = last'.value
          /\ Returns(NodeValue(nodes', <<>>), TRUE, last'.value)
          /\ NodeValue(nodes', <<>>).from = root
          /\ \A p \in Queries \ {<<>>} :
                NodeValue(nodes', p) = NodeValue(nodes, p)]_vars

\* The root was registered after a literal path and a root wildcard.
C23_Witness ==
    /\ IsAdd /\ last.segments = <<>> /\ last.panic = NoPanic /\ last.value = 1
    /\ \E v \in Values : << <<foo, bar>>, v >> \in routes
    /\ \E v \in Values : << <<star>>, v >> \in routes

\* C24: a failed Add changes nothing.  An Add that panics leaves every node
\* and every edge as it was, and Value of every path returns what it returned
\* before.
C24_FailedAddChangesNothing ==
    [][(AddStep /\ last'.panic # NoPanic) =>
          /\ nodes' = nodes
          /\ \A p \in Queries :
                LET before == NodeValue(nodes, p) IN
                Returns(NodeValue(nodes', p), before.found, before.value)]_vars

\* The walk of p, with result r, ended after its last segment on a node with
\* a stored value.
EndedOnStoredValue(r, p) ==
    /\ r.found
    /\ Len(r.walked) = Len(p) + 1
    /\ r.from = r.walked[Len(r.walked)]

EndsOnStoredValue(ns, p) == EndedOnStoredValue(NodeValue(ns, p), p)

\* C25 as stated: adding routes never breaks an existing exact match.  When
\* Value(p) returns (true, v) by ending on a node with a stored value, it
\* still returns (true, v) after any further Add that returns.
C25_ExactMatchIsStable_Original ==
    [][(AddStep /\ last'.panic = NoPanic) =>
          \A p \in Queries :
              LET before == NodeValue(nodes, p) IN
              EndedOnStoredValue(before, p) =>
                  Returns(NodeValue(nodes', p), TRUE, before.value)]_vars

\* C25 as amended: ... by ending on a node with a stored value that the walk
\* reached through the child stored under each segment itself, never through
\* the dynamic child ...
C25_ExactMatchIsStable ==
    [][(AddStep /\ last'.panic = NoPanic) =>
          \A p \in Queries :
              LET before == NodeValue(nodes, p)
                  after == NodeValue(nodes', p)
              IN  (EndedOnStoredValue(before, p) /\ before.from = p) =>
                      /\ Returns(after, TRUE, before.value)
                      /\ after.from = p]_vars

\* [foo,bar] was registered, then [foo,:name] and [*] were added beside and
\* above it.
C25_Witness ==
    /\ IsAdd /\ last.panic = NoPanic /\ last.segments = <<star>>
    /\ calls = 3 /\ Cardinality(routes) = 3
    /\ \E v \in Values : << <<foo, bar>>, v >> \in routes
    /\ \E v \in Values : << <<foo, name>>, v >> \in routes
    /\ EndsOnStoredValue(nodes, <<foo, bar>>)

\* C26: lookup soundness.  Whenever Value(p) returns (true, v), some Add(t, v)
\* that returned registered a template t that matches p: literal segments
\* equal, a ':'-prefixed segment matches any one segment, a final wildcard
\* segment matches one or more remaining segments.
C26_LookupSoundness ==
    \A p \in Queries :
        NodeValue(nodes, p).found =>
            \E r \in routes :
                r[2] = NodeValue(nodes, p).value /\ TemplateMatches(r[1], p)

\* C27: stored values are permanent.  No Add, returning or panicking, removes
\* a node or an edge, clears isSet or changes the value of a node that has
\* one; nodes and stored values only grow.
C27_StoredValuesArePermanent ==
    [][AddStep =>
          /\ \A n \in DOMAIN nodes :
                /\ n \in DOMAIN nodes'
                /\ \A key \in DOMAIN nodes[n].children :
                      /\ key \in DOMAIN nodes'[n].children
                      /\ nodes'[n].children[key] = nodes[n].children[key]
                /\ nodes[n].isSet =>
                      nodes'[n].isSet /\ nodes'[n].value = nodes[n].value
          /\ Stored(nodes) \subseteq Stored(nodes')]_vars

\* An Add panicked as a duplicate of a path registered with another value,
\* on a trie that holds two stored values.
C27_Witness ==
    /\ IsAdd /\ last.panic = DuplicateRoute
    /\ Cardinality(Stored(nodes)) = 2
    /\ \E r \in routes : r[1] = last.segments /\ r[2] # last.value


\* The registrations order[i..], added one after the other to the trie ns.
RECURSIVE AddAll(_, _, _)
AddAll(ns, order, i) ==
    IF i > Len(order)
    THEN [nodes |-> ns, panic |-> NoPanic]
    ELSE LET r == NodeAdd(ns, order[i][1], order[i][2]) IN
         IF r.panic # NoPanic THEN r ELSE AddAll(r.nodes, order, i + 1)

\* The orders in which the registrations rs can be made.
Orders(rs) ==
    { order \in [1..Cardinality(rs) -> rs] :
          \A i, j \in 1..Cardinality(rs) : i # j => order[i] # order[j] }

\* C28: registration order does not matter.  When a set of registrations has
\* succeeded in one order, it succeeds in every order, and every order builds
\* the same trie, which gives the same Value results.
C28_OrderDoesNotMatter ==
    calls = Cardinality(routes) =>
        \A order \in Orders(routes) :
            LET built == AddAll(New, order, 1) IN
            /\ built.panic = NoPanic
            /\ built.nodes = nodes
            /\ \A p \in OrderQueries :
                  NodeValue(built.nodes, p) = NodeValue(nodes, p)

\* A literal path, a dynamic sibling and a wildcard above them were
\* registered, and no Add failed.
C28_Witness ==
    /\ calls = 3 /\ Cardinality(routes) = 3
    /\ \E v \in {1, 2} : << <<foo, bar>>, v >> \in routes
    /\ \E v \in {1, 2} : << <<foo, name>>, v >> \in routes
    /\ \E v \in {1, 2} : << <<star>>, v >> \in routes

\* C29: wildcard nodes are set leaves.  After any sequence of Adds, returning
\* or panicking, every wildcard child has isSet true and no children, and a
\* value returned from a wildcard node is the value of an Add that returned.
C29_WildcardNodesAreSetLeaves ==
    /\ \A n \in DOMAIN nodes : \A key \in DOMAIN nodes[n].children :
          key = star =>
              /\ nodes[nodes[n].children[key]].isSet
              /\ nodes[nodes[n].children[key]].children = <<>>
    /\ (IsValue /\ last.found /\ IsWildcardNode(last.from))
          => \E r \in routes :
                 /\ r[2] = last.value
                 /\ r[1] # <<>>
                 /\ IsWildcard(r[1][Len(r[1])])
                 /\ Terminal(Front(r[1])) = Front(last.from)

\* After a panicking Add, a lookup fell back to the wildcard below foo.
C29_Witness ==
    /\ IsValue /\ last.found /\ last.from = <<foo, star>>
    /\ DeadEnded
    /\ calls > Cardinality(routes)

\* C30: trie and route agree.  Whenever the lookup of ServeHTTP returns a
\* route that is not a wildcard route, route.match succeeds on the request,
\* and the panic "route did not match request" is never raised.
C30_TrieAndRouteAgree ==
    IsServeHTTP =>
        /\ (last.found /\ ~isWildcard(router.routes[last.value])) => last.ok
        /\ last.panic # RouteDidNotMatch

====
